---- MODULE Spec2Model ----
(***************************************************************************)
(* Model of src/app.py: the two transcription entry points                 *)
(* (transcribe_speech, transcribe_mp3), the transcript sink                *)
(* (save_transcription) and the Streamlit script main.                     *)
(*                                                                         *)
(* Strings returned by the code are modelled by the name of their message  *)
(* template (one name per distinct return statement text).  External       *)
(* collaborators (microphone, ffmpeg, pydub, the recognition backends, the *)
(* filesystem) are inputs drawn with \E in the step that calls them.       *)
(***************************************************************************)
EXTENDS Integers, FiniteSets, Sequences, TLC

VARIABLES
    env,          \* names of the credential environment variables that are set
    ffmpeg,       \* TRUE iff the ffmpeg executable can be started
    pc,           \* position of the running transcribe_* call
    entry,        \* "none" | "speech" | "mp3": the entry point of the current call
    api,          \* api argument of the current call
    language,     \* language argument of the current call
    file,         \* file argument of transcribe_mp3: "valid" | "corrupt" | "none"
    callNo,       \* number of transcribe_* calls started so far
    steps,        \* steps the current call has executed
    tempBound,    \* TRUE iff local temp_wav_path is bound in the current call
    tempFiles,    \* temporary WAV files on disk, named by the call that made them
    elapsed,      \* buffers of silence heard by the current listen (capped)
    bufParity,    \* parity of the number of buffers the current listen has read
    backendCall,  \* the recognize_* call made by the current call, or NoCall
    cause,        \* what decided the outcome of the current call
    result,       \* message returned by the current call, "none" while running
    raised,       \* TRUE iff the current call ended with an exception escaping
    prev,         \* summary of the previous transcribe_* call, or NoPrev
    clock,        \* wall clock, in seconds
    ticks,        \* seconds the clock has advanced since the start
    files,        \* transcript files on disk: set of <<filename, text>>
    lastSave,     \* summary of the last save_transcription call, or NoSave
    prevSave,     \* summary of the save_transcription call before it, or NoSave
    saves,        \* number of save_transcription calls so far
    selected_api,       \* value of the api selectbox
    selected_language,  \* value of the language selectbox
    uploaded,     \* the file_uploader widget: "none" | "valid" | "corrupt"
    clicked,      \* button whose click triggered the current/last run of main
    rendered,     \* buttons the current/last run of main has rendered
    displayed,    \* transcription the current/last run of main has written, or "none"
    uiPc,         \* "waiting" | "in_tab1" | "in_tab2": where a run of main stands
    runs,         \* number of runs of main so far
    saveClickedOn,  \* transcription on display when Save Transcription was last clicked
    saveCalls     \* text arguments of the save_transcription calls made by main

vars == <<env, ffmpeg, pc, entry, api, language, file, callNo, steps, tempBound,
          tempFiles, elapsed, bufParity, backendCall, cause, result, raised, prev,
          clock, ticks, files, lastSave, prevSave, saves,
          selected_api, selected_language, uploaded, clicked, rendered, displayed,
          uiPc, runs, saveClickedOn, saveCalls>>

callVars == <<pc, entry, api, language, file, callNo, steps, tempBound, tempFiles,
              elapsed, bufParity, backendCall, cause, result, raised, prev>>
hostVars == <<env, ffmpeg>>
saveVars == <<clock, ticks, files, lastSave, prevSave, saves>>
uiVars   == <<selected_api, selected_language, uploaded, clicked, rendered, displayed,
             uiPc, runs, saveClickedOn, saveCalls>>

----------------------------------------------------------------------------
(* Bounds *)

MaxCalls == 2        \* transcribe_* calls per behaviour
MaxElapsed == 2      \* cap of the silence counter of listen
MaxTicks == 2        \* seconds the clock advances per behaviour
MaxSaves == 2        \* direct save_transcription calls per behaviour
MaxRuns == 4         \* runs of main per behaviour

----------------------------------------------------------------------------
(* Static tables *)

SUPPORTED_APIS == {"google", "sphinx", "wit", "bing", "houndify"}

\* An identifier outside SUPPORTED_APIS, as a direct caller may pass.
UnknownApi == "other"

SUPPORTED_LANGUAGES == {"en-US", "fr-FR"}

CredentialVars == {"WIT_AI_KEY", "BING_KEY", "HOUNDIFY_CLIENT_ID", "HOUNDIFY_CLIENT_KEY"}

\* os.getenv(name): the value, or None when the variable is not set.
Getenv(name) == IF name \in env THEN "set" ELSE "None"

NoCall == [backend |-> "none"]
NoPrev == [entry |-> "none"]
NoSave == [name |-> "none"]

----------------------------------------------------------------------------
(* The recognition backends (speech_recognition's recognize_* methods) *)

\* What a recognize_* call can do: return text or raise.
BackendOutcomes == {"text", "UnknownValueError", "RequestError", "Exception"}

\* What the recognize_* call c can do.  The library checks that every key it
\* is given is a string before it sends anything, so with None for a key the
\* call cannot return text: it raises.
BackendOutcomesOf(c) ==
    IF "None" \in {c.key, c.client_id, c.client_key}
    THEN {"RequestError", "Exception"}
    ELSE BackendOutcomes

\* What r.listen can raise besides WaitTimeoutError.
ListenExceptions == {"UnknownValueError", "RequestError", "Exception"}

\* r.listen(source) is called without a timeout argument (timeout=None):
\* the library then never raises WaitTimeoutError.
ListenTimeoutGiven == FALSE

Unused == "unused"

\* The backend call the if/elif chain makes for a known api, with the
\* arguments it passes (credentials straight from os.getenv, unchecked).
Dispatch(a, l) ==
    IF a = "google" THEN
        [backend |-> "recognize_google", language |-> l, key |-> Unused,
         client_id |-> Unused, client_key |-> Unused]
    ELSE IF a = "sphinx" THEN
        [backend |-> "recognize_sphinx", language |-> Unused, key |-> Unused,
         client_id |-> Unused, client_key |-> Unused]
    ELSE IF a = "wit" THEN
        [backend |-> "recognize_wit", language |-> l, key |-> Getenv("WIT_AI_KEY"),
         client_id |-> Unused, client_key |-> Unused]
    ELSE IF a = "bing" THEN
        [backend |-> "recognize_bing", language |-> l, key |-> Getenv("BING_KEY"),
         client_id |-> Unused, client_key |-> Unused]
    ELSE
        [backend |-> "recognize_houndify", language |-> l, key |-> Unused,
         client_id |-> Getenv("HOUNDIFY_CLIENT_ID"),
         client_key |-> Getenv("HOUNDIFY_CLIENT_KEY")]

\* Message returned by transcribe_speech for backend outcome o of api a:
\* the inner try/except of wit, bing and houndify, then the outer handlers.
SpeechRecognitionResult(a, o) ==
    IF o = "text" THEN "Text"
    ELSE IF o = "UnknownValueError" THEN
        IF a = "wit" THEN "WitNotUnderstood"
        ELSE IF a = "bing" THEN "BingNotUnderstood"
        ELSE IF a = "houndify" THEN "HoundifyNotUnderstood"
        ELSE "SpeechNotUnderstood"
    ELSE IF o = "RequestError" THEN
        IF a = "wit" THEN "WitCheckApiKey"
        ELSE IF a = "bing" THEN "BingCheckApiKey"
        ELSE IF a = "houndify" THEN "HoundifyCheckCredentials"
        ELSE "RequestFailed"
    ELSE "SpeechUnexpected"

\* Message returned by the try/except around the dispatch of transcribe_mp3
\* for backend outcome o; "raise" when the exception leaves that try.
Mp3RecognitionResult(a, o) ==
    IF o = "text" THEN "Text"
    ELSE IF o = "UnknownValueError" THEN "Mp3NotUnderstood"
    ELSE IF o = "RequestError" THEN "RequestFailed"
    ELSE "raise"

\* The section 7 kind a returned message belongs to, by its text.
Kind(msg) ==
    IF msg = "Text" THEN "Success"
    ELSE IF msg = "NoSpeech" THEN "NoSpeechDetected"
    ELSE IF msg \in {"ListenNotUnderstood", "WitNotUnderstood", "BingNotUnderstood",
                     "HoundifyNotUnderstood", "SpeechNotUnderstood", "Mp3NotUnderstood"}
        THEN "UnintelligibleAudio"
    ELSE IF msg \in {"WitCheckApiKey", "BingCheckApiKey", "HoundifyCheckCredentials"}
        THEN "MissingCredentials"
    ELSE IF msg \in {"MicrophoneRequestFailed", "RequestFailed"} THEN "TransportError"
    ELSE IF msg = "FFmpegNotInstalled" THEN "MissingDependency"
    ELSE IF msg \in {"RecordingUnexpected", "SpeechUnexpected"} THEN "UnexpectedError"
    ELSE IF msg = "Mp3ProcessingError" THEN "ProcessingError"
    ELSE "none"

----------------------------------------------------------------------------
(* Starting a call *)

\* Summary of the call that is ending, kept for comparison with the next one.
Summary ==
    IF entry = "none" THEN NoPrev
    ELSE [entry |-> entry, api |-> api, cause |-> cause, result |-> result,
          raised |-> raised, file |-> file]

CanStart == pc \in {"idle", "done"} /\ callNo < MaxCalls

\* keep: whether the ending call's summary is remembered (an observer of the
\* program, used to compare two calls; the program keeps nothing between calls).
StartCall(e, a, l, f, first, keep) ==
    /\ prev' = IF keep THEN Summary ELSE NoPrev
    /\ entry' = e
    /\ api' = a
    /\ language' = l
    /\ file' = f
    /\ callNo' = callNo + 1
    /\ steps' = {}
    /\ tempBound' = FALSE
    /\ elapsed' = 0
    /\ bufParity' = 0
    /\ backendCall' = NoCall
    /\ cause' = "none"
    /\ result' = "none"
    /\ raised' = FALSE
    /\ pc' = first
    /\ UNCHANGED tempFiles

\* A return statement: the call ends with message msg.
Return(msg, why) ==
    /\ result' = msg
    /\ cause' = why
    /\ raised' = FALSE
    /\ pc' = "done"

\* An exception leaves the function.
Raise(why) ==
    /\ result' = "none"
    /\ cause' = why
    /\ raised' = TRUE
    /\ pc' = "done"

Step(name) == steps' = steps \cup {name}

----------------------------------------------------------------------------
(* transcribe_speech *)

CallTranscribeSpeech(a, l, keep) ==
    /\ CanStart
    /\ StartCall("speech", a, l, "none", "sp_open", keep)
    /\ uiPc = "waiting"
    /\ UNCHANGED <<hostVars, saveVars, uiVars>>

\* with sr.Microphone() as source: outside every try block.
SpeechOpenMicrophone ==
    /\ pc = "sp_open"
    /\ Step("open_microphone")
    /\ \E ok \in BOOLEAN :
        IF ok THEN /\ pc' = "sp_listen"
                   /\ UNCHANGED <<result, cause, raised>>
        ELSE Raise("open_microphone")
    /\ UNCHANGED <<entry, api, language, file, callNo, tempBound, tempFiles, elapsed,
                   bufParity, backendCall, prev>>
    /\ UNCHANGED <<hostVars, saveVars, uiVars>>

\* One buffer of r.listen(source): speech starts the phrase and listen returns;
\* silence keeps it waiting, and only a given timeout ends the wait.
SpeechListen ==
    /\ pc = "sp_listen"
    /\ Step("listen")
    /\ \E ev \in {"speech", "silence"} \cup ListenExceptions :
        IF ev = "speech" THEN
            /\ pc' = "sp_recognize"
            /\ UNCHANGED <<result, cause, raised, elapsed, bufParity>>
        ELSE IF ev = "silence" THEN
            IF ListenTimeoutGiven /\ elapsed >= MaxElapsed THEN
                /\ Return("NoSpeech", "listen:WaitTimeoutError")
                /\ UNCHANGED <<elapsed, bufParity>>
            ELSE
                /\ elapsed' = IF elapsed < MaxElapsed THEN elapsed + 1 ELSE elapsed
                /\ bufParity' = 1 - bufParity
                /\ UNCHANGED <<pc, result, cause, raised>>
        ELSE
            /\ Return(IF ev = "UnknownValueError" THEN "ListenNotUnderstood"
                      ELSE IF ev = "RequestError" THEN "MicrophoneRequestFailed"
                      ELSE "RecordingUnexpected",
                      "listen:exception")
            /\ UNCHANGED <<elapsed, bufParity>>
    /\ UNCHANGED <<entry, api, language, file, callNo, tempBound, tempFiles,
                   backendCall, prev>>
    /\ UNCHANGED <<hostVars, saveVars, uiVars>>

\* Mutant of SpeechRecognize: no "except Exception" around the dispatch, so the
\* UnboundLocalError of an unknown api leaves the function.
SpeechRecognizeFatal ==
    /\ pc = "sp_recognize"
    /\ Step("recognize")
    /\ IF api \in SUPPORTED_APIS THEN
            /\ backendCall' = Dispatch(api, language)
            /\ \E o \in BackendOutcomesOf(Dispatch(api, language)) :
                Return(SpeechRecognitionResult(api, o), o)
       ELSE /\ backendCall' = NoCall
            /\ Raise("unknown_api")
    /\ UNCHANGED <<entry, api, language, file, callNo, tempBound, tempFiles, elapsed,
                   bufParity, prev>>
    /\ UNCHANGED <<hostVars, saveVars, uiVars>>

\* The if/elif chain and "return text".  For an api outside the chain no branch
\* binds text, "return text" raises UnboundLocalError inside the outer try and
\* "except Exception" returns the unexpected-error message.
SpeechRecognize ==
    /\ pc = "sp_recognize"
    /\ Step("recognize")
    /\ IF api \in SUPPORTED_APIS THEN
            /\ backendCall' = Dispatch(api, language)
            /\ \E o \in BackendOutcomesOf(Dispatch(api, language)) :
                Return(SpeechRecognitionResult(api, o), o)
       ELSE /\ backendCall' = NoCall
            /\ Return("SpeechUnexpected", "unknown_api")
    /\ UNCHANGED <<entry, api, language, file, callNo, tempBound, tempFiles, elapsed,
                   bufParity, prev>>
    /\ UNCHANGED <<hostVars, saveVars, uiVars>>

----------------------------------------------------------------------------
(* transcribe_mp3 *)

CallTranscribeMp3(f, a, l, keep) ==
    /\ CanStart
    /\ StartCall("mp3", a, l, f, "mp_probe", keep)
    /\ uiPc = "waiting"
    /\ UNCHANGED <<hostVars, saveVars, uiVars>>

\* os.unlink(temp_wav_path) of the current call's file.
Unlink == tempFiles' = tempFiles \ {callNo}

\* The outer "except Exception" handler: unlink the temporary file if
\* temp_wav_path is bound, then return the processing-error message.
Mp3Handler(why) ==
    /\ IF tempBound THEN Unlink ELSE UNCHANGED tempFiles
    /\ Return("Mp3ProcessingError", why)

\* A return statement inside the try block: the function returns at once and
\* the "Clean up temporary file" block after the with statement is not run.
Mp3Return(msg, why) ==
    /\ UNCHANGED tempFiles
    /\ Return(msg, why)

\* Mutant of Mp3Probe: the probe's failure is ignored and the call goes on.
Mp3ProbeIgnored ==
    /\ pc = "mp_probe"
    /\ Step("probe")
    /\ pc' = "mp_decode"
    /\ UNCHANGED <<result, cause, raised>>
    /\ UNCHANGED <<entry, api, language, file, callNo, tempBound, tempFiles, elapsed,
                   bufParity, backendCall, prev>>
    /\ UNCHANGED <<hostVars, saveVars, uiVars>>

\* subprocess.run(['ffmpeg', '-version']) under a bare except.
Mp3Probe ==
    /\ pc = "mp_probe"
    /\ Step("probe")
    /\ IF ffmpeg THEN /\ pc' = "mp_decode"
                      /\ UNCHANGED <<result, cause, raised>>
       ELSE Return("FFmpegNotInstalled", "ffmpeg_absent")
    /\ UNCHANGED <<entry, api, language, file, callNo, tempBound, tempFiles, elapsed,
                   bufParity, backendCall, prev>>
    /\ UNCHANGED <<hostVars, saveVars, uiVars>>

\* AudioSegment.from_mp3(file)
Mp3Decode ==
    /\ pc = "mp_decode"
    /\ Step("decode")
    /\ IF file = "valid" THEN /\ pc' = "mp_create_temp"
                              /\ UNCHANGED <<result, cause, raised, tempFiles>>
       ELSE Mp3Handler("decode")
    /\ UNCHANGED <<entry, api, language, file, callNo, tempBound, elapsed,
                   bufParity, backendCall, prev>>
    /\ UNCHANGED <<hostVars, saveVars, uiVars>>

\* tempfile.NamedTemporaryFile(suffix='.wav', delete=False); temp_wav_path = temp_wav.name
Mp3CreateTemp ==
    /\ pc = "mp_create_temp"
    /\ Step("create_temp")
    /\ \E ok \in BOOLEAN :
        IF ok THEN /\ tempFiles' = tempFiles \cup {callNo}
                   /\ tempBound' = TRUE
                   /\ pc' = "mp_export"
                   /\ UNCHANGED <<result, cause, raised>>
        ELSE /\ Mp3Handler("create_temp")
             /\ UNCHANGED tempBound
    /\ UNCHANGED <<entry, api, language, file, callNo, elapsed, bufParity,
                   backendCall, prev>>
    /\ UNCHANGED <<hostVars, saveVars, uiVars>>

\* A step of the try block that either succeeds or raises into the handler.
Mp3PlainStep(here, name, next) ==
    /\ pc = here
    /\ Step(name)
    /\ \E ok \in BOOLEAN :
        IF ok THEN /\ pc' = next
                   /\ UNCHANGED <<result, cause, raised, tempFiles>>
        ELSE Mp3Handler(name)
    /\ UNCHANGED <<entry, api, language, file, callNo, tempBound, elapsed,
                   bufParity, backendCall, prev>>
    /\ UNCHANGED <<hostVars, saveVars, uiVars>>

\* audio.export(temp_wav_path, format='wav')
Mp3Export == Mp3PlainStep("mp_export", "export", "mp_open_wav")

\* with sr.AudioFile(temp_wav_path) as source
Mp3OpenWav == Mp3PlainStep("mp_open_wav", "open_wav", "mp_record")

\* audio_data = r.record(source)
Mp3Record == Mp3PlainStep("mp_record", "record", "mp_recognize")

\* The if/elif chain and "return text" under the inner try.  For an api outside
\* the chain "return text" raises UnboundLocalError, which the inner handlers do
\* not catch and the outer handler does.
Mp3Recognize ==
    /\ pc = "mp_recognize"
    /\ Step("recognize")
    /\ IF api \in SUPPORTED_APIS THEN
            /\ backendCall' = Dispatch(api, language)
            /\ \E o \in BackendOutcomesOf(Dispatch(api, language)) :
                IF Mp3RecognitionResult(api, o) = "raise"
                THEN Mp3Handler(o)
                ELSE Mp3Return(Mp3RecognitionResult(api, o), o)
       ELSE /\ backendCall' = NoCall
            /\ Mp3Handler("unknown_api")
    /\ UNCHANGED <<entry, api, language, file, callNo, tempBound, elapsed,
                   bufParity, prev>>
    /\ UNCHANGED <<hostVars, saveVars, uiVars>>

TranscribeStep ==
    \/ SpeechOpenMicrophone
    \/ SpeechListen
    \/ SpeechRecognize
    \/ Mp3Probe
    \/ Mp3Decode
    \/ Mp3CreateTemp
    \/ Mp3Export
    \/ Mp3OpenWav
    \/ Mp3Record
    \/ Mp3Recognize

----------------------------------------------------------------------------
(* save_transcription *)

Texts == {"a", "b"}

\* The filename argument: None, the empty string, or a caller-given name.
Filenames == {"None", "", "t.txt"}

\* Clock readings the behaviours start from: each is followed within two
\* seconds by a roll-over of the seconds, minutes, hours or day field.
StartTimes == {0, 58, 3598, 86398}

\* datetime.datetime.now().strftime("%Y%m%d_%H%M%S"): the date, then the
\* hour, minute and second fields of the wall clock.
Timestamp(t) == <<t \div 86400, (t \div 3600) % 24, (t \div 60) % 60, t % 60>>

\* f"transcription_{timestamp}.txt"
DerivedName(t) == <<"transcription_", Timestamp(t), ".txt">>

\* The name the file is written under: "if not filename" holds for None and "".
TargetName(filename, t) ==
    IF filename \in {"None", ""} THEN DerivedName(t) ELSE <<filename>>

\* What open(filename, 'w') and f.write(text) can do.
WriteOutcomes == {"ok", "open_fails", "write_fails"}

\* The files after open(name, 'w') followed by write(text): opening truncates
\* an existing file, a failed write leaves it empty.
Written(name, text, how) ==
    IF how = "open_fails" THEN files
    ELSE {f \in files : f[1] # name}
            \cup {<<name, IF how = "ok" THEN text ELSE "">>}

\* The message save_transcription returns.
SaveResult(how) == IF how = "ok" THEN "SavedSuccessfully" ELSE "ErrorSaving"

\* The whole of save_transcription(text, filename) at the current clock.
SaveTranscription(text, filename, how) ==
    /\ files' = Written(TargetName(filename, clock), text, how)
    /\ lastSave' = [name |-> TargetName(filename, clock), text |-> text,
                    result |-> SaveResult(how), at |-> clock,
                    given |-> filename,
                    before |-> {f \in files : f[1] = TargetName(filename, clock)}]
    /\ prevSave' = lastSave
    /\ saves' = saves + 1
    /\ UNCHANGED <<clock, ticks>>

\* A direct caller of save_transcription.
CallSaveTranscription ==
    /\ saves < MaxSaves
    /\ \E text \in Texts, filename \in Filenames, how \in WriteOutcomes :
        SaveTranscription(text, filename, how)
    /\ UNCHANGED <<hostVars, callVars, uiVars>>

\* A second of wall-clock time passes.
Tick ==
    /\ ticks < MaxTicks
    /\ clock' = clock + 1
    /\ ticks' = ticks + 1
    /\ UNCHANGED <<files, lastSave, prevSave, saves>>
    /\ UNCHANGED <<hostVars, callVars, uiVars>>

----------------------------------------------------------------------------
(* main under Streamlit's rerun model: every widget event runs the script   *)
(* from the top; st.button returns True only in the run its click started.  *)

\* st.button(label) in the current run.
Button(id) == clicked = id

\* Buttons the two tabs render when neither transcription button is pressed.
TopLevelButtons(up) ==
    {"StartRecording"} \cup (IF up = "none" THEN {} ELSE {"TranscribeMP3"})

WidgetEvents == {"select_api", "select_language", "upload", "SaveTab1", "SaveTab2"}

\* A run of main started by an event other than a click on Start Recording or
\* Transcribe MP3: both st.button calls of those return False, so neither
\* "if" body runs and the nested Save Transcription buttons are not reached.
MainRerun ==
    /\ uiPc = "waiting"
    /\ pc \in {"idle", "done"}
    /\ runs < MaxRuns
    /\ \E ev \in WidgetEvents :
        /\ ev \in {"SaveTab1", "SaveTab2"} => ev \in rendered
        /\ clicked' = IF ev \in {"SaveTab1", "SaveTab2"} THEN ev ELSE "none"
        /\ saveClickedOn' = IF ev \in {"SaveTab1", "SaveTab2"} THEN displayed
                            ELSE saveClickedOn
        /\ IF ev = "select_api"
           THEN \E a \in SUPPORTED_APIS : selected_api' = a
           ELSE UNCHANGED selected_api
        /\ IF ev = "select_language"
           THEN \E l \in SUPPORTED_LANGUAGES : selected_language' = l
           ELSE UNCHANGED selected_language
        /\ IF ev = "upload"
           THEN \E f \in {"none", "valid", "corrupt"} : uploaded' = f
           ELSE UNCHANGED uploaded
    /\ rendered' = TopLevelButtons(uploaded')
    /\ displayed' = "none"
    /\ runs' = runs + 1
    /\ UNCHANGED <<uiPc, saveCalls>>
    /\ UNCHANGED <<hostVars, callVars, saveVars>>

\* A click on Start Recording: the run enters the first "if" of tab1 and
\* calls transcribe_speech with the selected api and language.
MainClickStart ==
    /\ uiPc = "waiting"
    /\ runs < MaxRuns
    /\ "StartRecording" \in rendered
    /\ CanStart
    /\ StartCall("speech", selected_api, selected_language, "none", "sp_open", FALSE)
    /\ clicked' = "StartRecording"
    /\ uiPc' = "in_tab1"
    /\ rendered' = {"StartRecording"}
    /\ displayed' = "none"
    /\ runs' = runs + 1
    /\ UNCHANGED <<selected_api, selected_language, uploaded, saveClickedOn, saveCalls>>
    /\ UNCHANGED <<hostVars, saveVars>>

\* A click on Transcribe MP3: tab1's button is False, the run reaches tab2 and
\* calls transcribe_mp3 on the uploaded file.
MainClickTranscribe ==
    /\ uiPc = "waiting"
    /\ runs < MaxRuns
    /\ "TranscribeMP3" \in rendered
    /\ CanStart
    /\ StartCall("mp3", selected_api, selected_language, uploaded, "mp_probe", FALSE)
    /\ clicked' = "TranscribeMP3"
    /\ uiPc' = "in_tab2"
    /\ rendered' = TopLevelButtons(uploaded)
    /\ displayed' = "none"
    /\ runs' = runs + 1
    /\ UNCHANGED <<selected_api, selected_language, uploaded, saveClickedOn, saveCalls>>
    /\ UNCHANGED <<hostVars, saveVars>>

\* The rest of the run after the transcribe_* call: write the transcription,
\* then "if st.button('Save Transcription'): save_transcription(text)".  An
\* exception out of the call ends the run where it stands.
MainFinish ==
    /\ uiPc \in {"in_tab1", "in_tab2"}
    /\ pc = "done"
    /\ IF raised THEN
            /\ UNCHANGED <<displayed, rendered, saveCalls, saveVars>>
       ELSE
            /\ displayed' = result
            /\ rendered' = TopLevelButtons(uploaded)
                    \cup {IF uiPc = "in_tab1" THEN "SaveTab1" ELSE "SaveTab2"}
            /\ IF Button(IF uiPc = "in_tab1" THEN "SaveTab1" ELSE "SaveTab2") THEN
                    /\ \E how \in WriteOutcomes : SaveTranscription(result, "None", how)
                    /\ saveCalls' = saveCalls \cup {result}
               ELSE UNCHANGED <<saveCalls, saveVars>>
    /\ uiPc' = "waiting"
    /\ UNCHANGED <<selected_api, selected_language, uploaded, clicked, runs, saveClickedOn>>
    /\ UNCHANGED <<hostVars, callVars>>

----------------------------------------------------------------------------
(* Initial states *)

InitHost ==
    /\ env \in SUBSET CredentialVars
    /\ ffmpeg \in BOOLEAN

InitCall ==
    /\ pc = "idle"
    /\ entry = "none"
    /\ api = "none"
    /\ language = "none"
    /\ file = "none"
    /\ callNo = 0
    /\ steps = {}
    /\ tempBound = FALSE
    /\ tempFiles = {}
    /\ elapsed = 0
    /\ bufParity = 0
    /\ backendCall = NoCall
    /\ cause = "none"
    /\ result = "none"
    /\ raised = FALSE
    /\ prev = NoPrev

InitSave ==
    /\ clock = 0
    /\ ticks = 0
    /\ files = {}
    /\ lastSave = NoSave
    /\ prevSave = NoSave
    /\ saves = 0

\* The page after the first run of main: both selectboxes at their first
\* option, no file uploaded, only the Start Recording button rendered.
InitUi ==
    /\ selected_api = "google"
    /\ selected_language = "en-US"
    /\ uploaded = "none"
    /\ clicked = "none"
    /\ rendered = {"StartRecording"}
    /\ displayed = "none"
    /\ uiPc = "waiting"
    /\ runs = 0
    /\ saveClickedOn = "none"
    /\ saveCalls = {}

Init == InitHost /\ InitCall /\ InitSave /\ InitUi

----------------------------------------------------------------------------
(* Direct callers of the two entry points *)

Mp3Files == {"valid", "corrupt"}

Call(keep) ==
    \E a \in SUPPORTED_APIS \cup {UnknownApi}, l \in SUPPORTED_LANGUAGES :
        \/ CallTranscribeSpeech(a, l, keep)
        \/ \E f \in Mp3Files : CallTranscribeMp3(f, a, l, keep)

Next == Call(FALSE) \/ TranscribeStep

Spec == Init /\ [][Next]_vars

\* Every started call keeps running: the interpreter executes the next statement.
FairSpec == Spec /\ WF_vars(TranscribeStep)

\* The same program, with the previous call's summary remembered.
NextPair == Call(TRUE) \/ TranscribeStep

PairSpec == Init /\ [][NextPair]_vars

\* save_transcription called directly while the clock runs.
InitSaveSpec ==
    /\ env = {}
    /\ ffmpeg = TRUE
    /\ InitCall
    /\ clock \in StartTimes
    /\ ticks = 0
    /\ files = {}
    /\ lastSave = NoSave
    /\ prevSave = NoSave
    /\ saves = 0
    /\ InitUi

NextSave == CallSaveTranscription \/ Tick

SaveSpec == InitSaveSpec /\ [][NextSave]_vars

\* The Streamlit session: the user's events and the runs of main they start.
NextMain ==
    \/ MainRerun
    \/ MainClickStart
    \/ MainClickTranscribe
    \/ MainFinish
    \/ TranscribeStep

MainSpec == Init /\ [][NextMain]_vars

----------------------------------------------------------------------------
(* Properties *)

Finished == pc = "done"

\* The call reached the provider dispatch.
Dispatched == "recognize" \in steps

\* The environment variables the api's backend call reads.
RequiredCredentials(a) ==
    IF a = "wit" THEN {"WIT_AI_KEY"}
    ELSE IF a = "bing" THEN {"BING_KEY"}
    ELSE IF a = "houndify" THEN {"HOUNDIFY_CLIENT_ID", "HOUNDIFY_CLIENT_KEY"}
    ELSE {}

\* The backend that belongs to each provider.
OwnBackend(a) ==
    IF a = "google" THEN "recognize_google"
    ELSE IF a = "sphinx" THEN "recognize_sphinx"
    ELSE IF a = "wit" THEN "recognize_wit"
    ELSE IF a = "bing" THEN "recognize_bing"
    ELSE IF a = "houndify" THEN "recognize_houndify"
    ELSE "none"

\* C1: when a transcribe_mp3 call that created its temporary WAV file has
\* returned, on whichever exit path, that file has been deleted; so after any
\* sequence of calls no temporary file is left.
C1_NoLeftoverTempFile == Finished => tempFiles = {}

\* C2: for wit, bing and houndify, in both entry points, a call that reaches
\* the dispatch with a required credential absent returns the
\* missing-credentials result without attempting the backend call; for google
\* and sphinx no credential is read.
C2_MissingCredentialsBeforeBackend ==
    (Finished /\ Dispatched /\ api \in SUPPORTED_APIS) =>
        /\ ~(RequiredCredentials(api) \subseteq env) =>
                /\ Kind(result) = "MissingCredentials"
                /\ backendCall = NoCall
        /\ RequiredCredentials(api) = {} =>
                /\ backendCall.key = Unused
                /\ backendCall.client_id = Unused
                /\ backendCall.client_key = Unused

\* C3: in transcribe_mp3 the probe precedes the decode, and with ffmpeg absent
\* the call executes no step but the probe (no decode, no temporary file, no
\* backend call) and returns the missing-dependency message.
C3_ProbeBeforeDecode ==
    entry = "mp3" =>
        /\ "decode" \in steps => "probe" \in steps
        /\ ~ffmpeg =>
            /\ steps \subseteq {"probe"}
            /\ pc \in {"mp_probe", "done"}
            /\ callNo \notin tempFiles
            /\ ~tempBound
            /\ backendCall = NoCall
            /\ Finished => (result = "FFmpegNotInstalled" /\ ~raised)

C3_Witness == entry = "mp3" /\ ~ffmpeg /\ Finished /\ steps = {"probe"}

\* Failures of transcribe_mp3 other than a failed decode.
OtherMp3Failures ==
    {"ffmpeg_absent", "create_temp", "export", "open_wav", "record", "Exception",
     "unknown_api"}

\* C4: with ffmpeg present, a transcribe_mp3 call whose decode fails returns a
\* result, one that no missing dependency, missing credential or unexpected
\* error yields, and its temporary file does not exist when it returns.
C4_DecodeErrorDistinct ==
    (Finished /\ entry = "mp3" /\ cause = "decode") =>
        /\ ffmpeg
        /\ ~raised
        /\ result \notin {"none", "FFmpegNotInstalled"}
        /\ Kind(result) \notin {"MissingDependency", "MissingCredentials", "UnexpectedError"}
        /\ callNo \notin tempFiles
        /\ (prev.entry = "mp3" /\ prev.cause \in OtherMp3Failures) => prev.result # result

\* C5: with one of the five providers, a call of either entry point returns a
\* result whatever step fails; no exception escapes to the caller.
C5_NeverRaises ==
    (Finished /\ api \in SUPPORTED_APIS) => (~raised /\ result # "none")

\* C6 as stated: a call that reaches the dispatch with a provider outside the
\* five ends with a fault, not with a result.
C6_UnknownProviderFatal ==
    (Finished /\ Dispatched /\ api \notin SUPPORTED_APIS) => (raised /\ result = "none")

\* C6 as amended: every known provider invokes exactly its own backend; a
\* provider outside the five invokes none and the call returns the catch-all
\* message of its entry point, with no fault reaching the caller.
C6_UnknownProviderCaught ==
    /\ backendCall # NoCall =>
            /\ api \in SUPPORTED_APIS
            /\ backendCall.backend = OwnBackend(api)
    /\ (Finished /\ Dispatched /\ api \in SUPPORTED_APIS) => backendCall # NoCall
    /\ (Finished /\ Dispatched /\ api \notin SUPPORTED_APIS) =>
            /\ backendCall = NoCall
            /\ ~raised
            /\ result = IF entry = "speech" THEN "SpeechUnexpected"
                        ELSE "Mp3ProcessingError"

C6_Witness ==
    /\ Finished
    /\ Dispatched
    /\ api = UnknownApi
    /\ entry = "mp3"
    /\ tempBound
    /\ ~raised

\* C7: a listening transcribe_speech call always comes to an end, even if no
\* speech is ever detected.
C7_ListenTerminates == (pc = "sp_listen") ~> Finished

\* C8: for wit and bing a backend request failure yields the credentials
\* message, and the two entry points return the same kind of result for the
\* same provider and backend outcome.
C8_SameKindBothEntries ==
    (Finished /\ Dispatched /\ api \in {"wit", "bing"}) =>
        /\ cause = "RequestError" => Kind(result) = "MissingCredentials"
        /\ (/\ prev.entry \notin {"none", entry}
            /\ prev.api = api
            /\ prev.cause = cause
            /\ cause \in BackendOutcomes) => Kind(prev.result) = Kind(result)

\* C9: two save_transcription calls without a filename derive distinct names
\* exactly when they fall in different seconds; in the same second the second
\* call does not report plain success unless the first file's content is kept.
C9_NoSilentOverwrite ==
    (/\ prevSave # NoSave
     /\ lastSave.given = "None"
     /\ prevSave.given = "None") =>
        /\ (lastSave.name # prevSave.name) <=> (lastSave.at # prevSave.at)
        /\ (lastSave.at = prevSave.at /\ prevSave.result = "SavedSuccessfully") =>
                \/ lastSave.result # "SavedSuccessfully"
                \/ <<prevSave.name, prevSave.text>> \in files

\* C10: once the run started by a click on Save Transcription is over,
\* save_transcription has been called with the transcription that was on
\* display when the button was clicked.
C10_SaveClickSaves ==
    (uiPc = "waiting" /\ saveClickedOn # "none") => saveClickedOn \in saveCalls

====
